---- MODULE Spec2Model ----
(***************************************************************************)
(* Model of the voidbot backend relay (src/server.js): the two in-memory   *)
(* maps deviceCodes and sessions, the device pairing handlers              *)
(* (/api/device/start, /api/device/claim), the token-resolving proxies     *)
(* (/api/me, /api/discord/guilds) and the hourly sweep.                    *)
(*                                                                         *)
(* Strings are sequences of one-character strings, so startsWith, slice    *)
(* and concatenation are computed as the code computes them.  Time is      *)
(* counted in minutes (Date.now() / 60000).                                *)
(*                                                                         *)
(* The claim handler reads the maps before its await and writes them       *)
(* after it, so it is two steps, ClaimBegin (up to the await) and          *)
(* ClaimFinish (after the upstream answer); other handlers, the sweep and  *)
(* the clock may run between the two, as on the Node event loop.  The      *)
(* start handler and the proxies touch no shared state before their        *)
(* await (they only read the request), so each is one step taken when      *)
(* the upstream answer arrives.                                            *)
(***************************************************************************)
EXTENDS Integers, Sequences, FiniteSets, TLC

VARIABLES
    now,            \* Date.now(), in minutes
    ticks,          \* how many bounded clock steps were taken
    nextSweep,      \* earliest time the setInterval callback fires next
    deviceCodes,    \* Map: code -> reference (index into rows) of its row object
    rows,           \* the row objects { userId, discord_access_token, exp, used }
    sessions,       \* Map: session_token -> { userId, discord_access_token, exp, device_name }
    inflight,       \* claim handler invocations suspended at their await
    resp,           \* the response written in the current event-loop turn
    redeems,        \* history: per row object, how many sessions were added for it
    redeemedCodes   \* history: code strings a claim has answered 200 for

vars == <<now, ticks, nextSweep, deviceCodes, rows, sessions, inflight, resp,
          redeems, redeemedCodes>>

-----------------------------------------------------------------------------
(* Bounds of the exploration *)

MaxRows == 1

MaxTicks == 1

(* Program constants, in minutes *)

DeviceTtl == 10

SweepInterval == 60

SessionTtl == 30 * 24 * 60

DeviceCodeLen == 12

BearerLen == 7

-----------------------------------------------------------------------------
(* Strings *)

Undefined == <<"undefined">>

Null == <<"null">>

BearerPrefix == <<"B", "e", "a", "r", "e", "r", " ">>

Windows == <<"W", "i", "n", "d", "o", "w", "s">>

SessPrefix == <<"s", "e", "s", "s", "_">>

\* s.startsWith(p)
StartsWith(s, p) == Len(s) >= Len(p) /\ SubSeq(s, 1, Len(p)) = p

\* s.slice(n)
Slice(s, n) == SubSeq(s, n + 1, Len(s))

\* s.slice(a, b)
Slice2(s, a, b) == SubSeq(s, a + 1, IF b < Len(s) THEN b ELSE Len(s))

\* (x || "") and !x for a value that is a string or undefined
OrEmpty(x) == IF x = Undefined THEN <<>> ELSE x

Falsy(x) == x = Undefined \/ x = Null \/ x = <<>>

\* the bearer token of an Authorization header, "" when there is none
BearerOf(authorization) ==
    IF StartsWith(OrEmpty(authorization), BearerPrefix)
    THEN Slice(authorization, BearerLen)
    ELSE <<>>

-----------------------------------------------------------------------------
(* Random generators: the value drawn is an input of the step that calls   *)
(* them; two calls may draw the same value.                                 *)

\* the characters Math.random() may pick (a part of the 31-letter alphabet)
RandomChars == {"A", "B"}

RawCodes == {[i \in 1..DeviceCodeLen |-> c] : c \in RandomChars}

\* genDeviceCode: XXXX-XXXX-XXXX
genDeviceCode(raw) ==
    Slice2(raw, 0, 4) \o <<"-">> \o Slice2(raw, 4, 8) \o <<"-">> \o Slice(raw, 8)

DeviceCodeValues == {genDeviceCode(raw) : raw \in RawCodes}

RandomSuffixes == {<<"a">>, <<"b">>}

\* genSessionToken: "sess_" + random base-36 digits
genSessionToken(rnd) == SessPrefix \o rnd

SessionTokenValues == {genSessionToken(rnd) : rnd \in RandomSuffixes}

-----------------------------------------------------------------------------
(* The upstream provider *)

\* access tokens the provider has issued, and the account of each
DiscordTokens == {<<"d", "1">>, <<"d", "2">>}

\* the bearer values presented to /api/device/start
StartTokens == {<<"d", "1">>, genSessionToken(<<"a">>)}

UpstreamUser(token) == IF token = <<"d", "1">> THEN "u1" ELSE "u2"

\* what a profile lookup can come back with: a non-ok status, a rejected
\* fetch/text promise, an ok answer whose body is not JSON, an ok answer
\* whose body is the JSON value null, an ok answer with the user object
UpstreamOutcomes == {"nonok", "throw", "unparsable", "null", "ok"}

\* the provider answers ok only for a token it issued
UpstreamMay(token, outcome) == outcome \in {"ok", "null", "unparsable"} => token \in DiscordTokens

-----------------------------------------------------------------------------
(* Request inputs *)

\* Authorization headers: none, "Bearer " alone, a token without the scheme,
\* and "Bearer " followed by a provider token or by a session token
NoBearerHeaders == {Undefined, BearerPrefix, <<"d", "1">>}

StartHeaders == NoBearerHeaders \cup {BearerPrefix \o t : t \in StartTokens}

ProxyHeaders ==
    NoBearerHeaders \cup {BearerPrefix \o t : t \in DiscordTokens \cup SessionTokenValues}

ClaimCodes == {Undefined, <<>>} \cup DeviceCodeValues \cup RawCodes

DeviceNames == {Undefined, <<"P", "C">>}

\* the claim inputs of the explorations that do not look at device names
NoName == {Undefined}

Routes == {"me", "guilds"}

Slots == {1, 2}

Idle == [route |-> "idle"]

NoResp == [route |-> "none"]

EmptyMap == [k \in {} |-> 0]

\* Map.delete of every key outside keep
Restrict(m, keep) == [k \in keep |-> m[k]]

\* Map.set
MapSet(m, k, v) == (k :> v) @@ m

FreeSlot(s) == inflight[s] = Idle /\ \A q \in Slots : q < s => inflight[q] # Idle

-----------------------------------------------------------------------------
(* resolveDiscordTokenFromAuthHeader, server.js 42-48 *)

\* faulty variant: the session map is never consulted
resolveWithoutSessions(authorization, sess, t) ==
    LET tok == BearerOf(authorization)
    IN  IF tok = <<>> THEN Null ELSE tok

\* faulty variant: a session is still honoured at the instant it expires
resolveHonouringAtExpiry(authorization, sess, t) ==
    LET tok == BearerOf(authorization)
    IN  IF tok = <<>> THEN Null
        ELSE IF tok \in DOMAIN sess /\ sess[tok].exp >= t
             THEN sess[tok].discord_access_token
             ELSE tok

resolveDiscordTokenFromAuthHeader(authorization, sess, t) ==
    LET tok == BearerOf(authorization)
    IN  IF tok = <<>> THEN Null
        ELSE IF tok \in DOMAIN sess /\ sess[tok].exp > t
             THEN sess[tok].discord_access_token
             ELSE tok

-----------------------------------------------------------------------------
Init ==
    /\ now = 0
    /\ ticks = 0
    /\ nextSweep = SweepInterval
    /\ deviceCodes = EmptyMap
    /\ rows = <<>>
    /\ sessions = EmptyMap
    /\ inflight = [s \in Slots |-> Idle]
    /\ resp = NoResp
    /\ redeems = <<>>
    /\ redeemedCodes = {}

-----------------------------------------------------------------------------
(* Responses: res.status(status).json({ error, ... }); req keeps the       *)
(* request's inputs and upstream what the upstream call came back with     *)
(* ("none" when the handler answered without calling upstream).            *)

Reply(route, req, up, status, error, body) ==
    [route |-> route, req |-> req, upstream |-> up, status |-> status,
     error |-> error, body |-> body]

NoBody == [k \in {} |-> 0]

\* the turn that wrote a response ends
EndTurn ==
    /\ resp # NoResp
    /\ resp' = NoResp
    /\ UNCHANGED <<now, ticks, nextSweep, deviceCodes, rows, sessions, inflight,
                   redeems, redeemedCodes>>

-----------------------------------------------------------------------------
(* POST /api/device/start, server.js 123-146 *)

\* faulty variant: the code gets the lifetime of a session
NewRowLongLived(userId, discordToken, t) ==
    [userId |-> userId, discord_access_token |-> discordToken,
     exp |-> t + SessionTtl, used |-> FALSE]

\* the row stored by line 139
NewRow(userId, discordToken, t) ==
    [userId |-> userId, discord_access_token |-> discordToken,
     exp |-> t + DeviceTtl, used |-> FALSE]

StartReply(req, outcome, code, row) ==
    CASE outcome = "nonok" -> Reply("start", req, outcome, 401, "discord_unauthorized", NoBody)
      [] outcome \in {"throw", "unparsable", "null"} ->
            \* a rejected promise, JSON.parse throwing, or me.id of null
            Reply("start", req, outcome, 500, "server_error", NoBody)
      [] outcome = "ok" ->
            Reply("start", req, outcome, 200, "", [device_code |-> code, expires_at |-> row.exp])

Start(authorization, outcome, raw) ==
    LET discordToken == BearerOf(authorization)
        req == [authorization |-> authorization]
        code == genDeviceCode(raw)
        row == NewRow(UpstreamUser(discordToken), discordToken, now)
    IN  /\ resp = NoResp
        /\ IF Falsy(discordToken)
           THEN \* line 127
                /\ resp' = Reply("start", req, "none", 401, "missing_bearer_token", NoBody)
                /\ UNCHANGED <<deviceCodes, rows, redeems>>
           ELSE /\ UpstreamMay(discordToken, outcome)
                /\ resp' = StartReply(req, outcome, code, row)
                /\ IF outcome = "ok"
                   THEN /\ rows' = Append(rows, row)
                        /\ redeems' = Append(redeems, 0)
                        /\ deviceCodes' = MapSet(deviceCodes, code, Len(rows) + 1)
                   ELSE UNCHANGED <<deviceCodes, rows, redeems>>
        /\ UNCHANGED <<now, ticks, nextSweep, sessions, inflight, redeemedCodes>>

-----------------------------------------------------------------------------
(* POST /api/device/claim, server.js 151-195 *)

\* faulty variant: the expiry of a stored row is not checked
RowRejectionIgnoringExpiry(row, t) ==
    IF row.used THEN "already_used" ELSE ""

\* faulty variant: the expiry is checked before the used flag
RowRejectionExpiryFirst(row, t) ==
    IF row.exp < t THEN "expired"
    ELSE IF row.used THEN "already_used"
    ELSE ""

\* lines 158-159: the checks on a stored row; "" when it may be redeemed
RowRejection(row, t) ==
    IF row.used THEN "already_used"
    ELSE IF row.exp < t THEN "expired"
    ELSE ""

\* faulty variant: the map is looked up before the presence check
ClaimRejectionLookupFirst(device_code, dc, rws, t) ==
    IF device_code \notin DOMAIN dc THEN "invalid_code"
    ELSE IF Falsy(device_code) THEN "missing_code"
    ELSE RowRejection(rws[dc[device_code]], t)

\* lines 153-159: "" when the handler goes on to the upstream lookup
ClaimRejection(device_code, dc, rws, t) ==
    IF Falsy(device_code) THEN "missing_code"
    ELSE IF device_code \notin DOMAIN dc THEN "invalid_code"
    ELSE RowRejection(rws[dc[device_code]], t)

\* lines 153-164: up to the await of the profile lookup
ClaimBegin(s, device_code, device_name) ==
    LET req == [device_code |-> device_code, device_name |-> device_name]
        why == ClaimRejection(device_code, deviceCodes, rows, now)
    IN  /\ resp = NoResp
        /\ FreeSlot(s)
        /\ IF why # ""
           THEN /\ resp' = Reply("claim", [device_code |-> device_code], "none", 400, why, NoBody)
                /\ UNCHANGED inflight
           ELSE /\ inflight' = [inflight EXCEPT ![s] =
                       [route |-> "claim", req |-> req, row |-> deviceCodes[device_code]]]
                /\ UNCHANGED resp
        /\ UNCHANGED <<now, ticks, nextSweep, deviceCodes, rows, sessions,
                       redeems, redeemedCodes>>

\* the session stored by lines 173-178
NewSession(row, device_name, t) ==
    [userId |-> row.userId, discord_access_token |-> row.discord_access_token,
     exp |-> t + SessionTtl,
     device_name |-> IF Falsy(device_name) THEN Windows ELSE device_name]

\* faulty variant: the body is parsed only after the state was changed
LookupFailureParsingLate(outcome) ==
    CASE outcome = "nonok" -> "discord_unauthorized"
      [] outcome = "throw" -> "server_error"
      [] OTHER -> ""

\* lines 166-167 and 191-194: "" when the lookup lets the handler go on to line 170
LookupFailure(outcome) ==
    CASE outcome = "nonok" -> "discord_unauthorized"
      [] outcome \in {"throw", "unparsable"} -> "server_error"
      [] OTHER -> ""

\* lines 165-194: after the upstream answer
ClaimFinish(s, outcome, rnd) ==
    LET h == inflight[s]
        row == rows[h.row]
        session_token == genSessionToken(rnd)
        sess == NewSession(row, h.req.device_name, now)
        info == [row |-> h.row]
        failure == LookupFailure(outcome)
    IN  /\ resp = NoResp
        /\ h.route = "claim"
        /\ UpstreamMay(row.discord_access_token, outcome)
        /\ inflight' = [inflight EXCEPT ![s] = Idle]
        /\ IF failure # ""
           THEN /\ resp' = Reply("claim", h.req, outcome,
                                 IF outcome = "nonok" THEN 401 ELSE 500, failure, info)
                /\ UNCHANGED <<rows, sessions, redeems, redeemedCodes>>
           ELSE \* lines 170-178
                /\ rows' = [rows EXCEPT ![h.row].used = TRUE]
                /\ sessions' = MapSet(sessions, session_token, sess)
                /\ redeems' = [redeems EXCEPT ![h.row] = @ + 1]
                /\ IF outcome = "null"
                   THEN \* me.id of null throws at line 183: the catch of line 191
                        /\ resp' = Reply("claim", h.req, outcome, 500, "server_error", info)
                        /\ UNCHANGED redeemedCodes
                   ELSE /\ resp' = Reply("claim", h.req, outcome, 200, "",
                                         [session_token |-> session_token,
                                          expires_at |-> sess.exp, row |-> h.row])
                        /\ redeemedCodes' = redeemedCodes \cup {h.req.device_code}
        /\ UNCHANGED <<now, ticks, nextSweep, deviceCodes>>

-----------------------------------------------------------------------------
(* GET /api/me and GET /api/discord/guilds, server.js 202-239 *)

MissingTokenError(route) == IF route = "me" THEN "missing_token" ELSE "missing_bearer_token"

\* a status the provider answers a refused call with
UpstreamErrorStatus == 403

\* faulty variant: a session found expired is dropped from the map on the spot
ProxyEvictingExpired(route, authorization, outcome) ==
    LET tok == BearerOf(authorization)
        discordToken == resolveDiscordTokenFromAuthHeader(authorization, sessions, now)
        req == [authorization |-> authorization]
        sent == [discordToken |-> discordToken]
    IN  /\ resp = NoResp
        /\ IF Falsy(discordToken)
           THEN resp' = Reply(route, req, "none", 401, MissingTokenError(route), NoBody)
           ELSE /\ outcome \in {"ok", "nonok", "throw"}
                /\ UpstreamMay(discordToken, outcome)
                /\ resp' = CASE outcome = "ok" -> Reply(route, req, outcome, 200, "", sent)
                             [] outcome = "nonok" ->
                                  Reply(route, req, outcome, UpstreamErrorStatus, "discord_error", sent)
                             [] outcome = "throw" ->
                                  Reply(route, req, outcome, 500, "server_error", sent)
        /\ sessions' = IF tok \in DOMAIN sessions /\ sessions[tok].exp <= now
                       THEN [k \in DOMAIN sessions \ {tok} |-> sessions[k]]
                       ELSE sessions
        /\ UNCHANGED <<now, ticks, nextSweep, deviceCodes, rows, inflight,
                       redeems, redeemedCodes>>

Proxy(route, authorization, outcome) ==
    LET discordToken == resolveDiscordTokenFromAuthHeader(authorization, sessions, now)
        req == [authorization |-> authorization]
        sent == [discordToken |-> discordToken]
    IN  /\ resp = NoResp
        /\ IF Falsy(discordToken)
           THEN \* lines 205 / 225
                resp' = Reply(route, req, "none", 401, MissingTokenError(route), NoBody)
           ELSE /\ outcome \in {"ok", "nonok", "throw"}
                /\ UpstreamMay(discordToken, outcome)
                /\ resp' = CASE outcome = "ok" -> Reply(route, req, outcome, 200, "", sent)
                             [] outcome = "nonok" ->
                                  Reply(route, req, outcome, UpstreamErrorStatus, "discord_error", sent)
                             [] outcome = "throw" ->
                                  Reply(route, req, outcome, 500, "server_error", sent)
        /\ UNCHANGED <<now, ticks, nextSweep, deviceCodes, rows, sessions, inflight,
                       redeems, redeemedCodes>>

-----------------------------------------------------------------------------
(* GET /api/health and POST /api/auth/discord, server.js 53-114 *)

Health ==
    /\ resp = NoResp
    /\ resp' = Reply("health", NoBody, "none", 200, "", [ok |-> TRUE, ts |-> now])
    /\ UNCHANGED <<now, ticks, nextSweep, deviceCodes, rows, sessions, inflight,
                   redeems, redeemedCodes>>

\* the OAuth codes a login may carry
AuthCodes == {Undefined, <<"c">>}

\* what the token exchange (lines 77-87) and the profile lookup (lines 89-97)
\* come back with: either call may throw, the exchange may answer non-ok, the
\* profile may lack an id
AuthOutcomes == {"token_throw", "token_nonok", "user_throw", "user_missing", "ok"}

AuthDiscord(code, outcome) ==
    LET req == [code |-> code]
    IN  /\ resp = NoResp
        /\ resp' =
              IF Falsy(code)
              THEN Reply("auth", req, "none", 400, "missing_code", NoBody)
              ELSE CASE outcome \in {"token_throw", "user_throw"} ->
                           Reply("auth", req, outcome, 500, "server_error", NoBody)
                     [] outcome = "token_nonok" ->
                           Reply("auth", req, outcome, 400, "token_exchange_failed", NoBody)
                     [] outcome = "user_missing" ->
                           Reply("auth", req, outcome, 400, "user_fetch_failed", NoBody)
                     [] outcome = "ok" ->
                           Reply("auth", req, outcome, 200, "",
                                 [access_token |-> <<"d", "1">>, user |-> UpstreamUser(<<"d", "1">>)])
        /\ UNCHANGED <<now, ticks, nextSweep, deviceCodes, rows, sessions, inflight,
                       redeems, redeemedCodes>>

-----------------------------------------------------------------------------
(* The setInterval callback, server.js 244-252 *)

\* faulty variant: a session expiring exactly now survives the sweep
SessionDeadStrictly(v, t) == v.exp < t

\* faulty variant: the sweep drops used device codes only
DeviceCodeDeadWhenUsed(v, t) == v.used

\* line 247
SessionDead(v, t) == v.exp <= t

\* line 250
DeviceCodeDead(v, t) == v.exp <= t \/ v.used

SweepSessions(sess, t) ==
    Restrict(sess, {k \in DOMAIN sess : ~SessionDead(sess[k], t)})

SweepDeviceCodes(dc, rws, t) ==
    Restrict(dc, {k \in DOMAIN dc : ~DeviceCodeDead(rws[dc[k]], t)})

Sweep ==
    /\ resp = NoResp
    /\ now >= nextSweep
    /\ sessions' = SweepSessions(sessions, now)
    /\ deviceCodes' = SweepDeviceCodes(deviceCodes, rows, now)
    /\ nextSweep' = now + SweepInterval
    /\ UNCHANGED <<now, ticks, rows, inflight, resp, redeems, redeemedCodes>>

-----------------------------------------------------------------------------
(* The clock read by Date.now() *)

TickSteps == {DeviceTtl, SessionTtl}

Tick(d) ==
    /\ resp = NoResp
    /\ ticks < MaxTicks
    /\ now' = now + d
    /\ ticks' = ticks + 1
    /\ UNCHANGED <<nextSweep, deviceCodes, rows, sessions, inflight, resp,
                   redeems, redeemedCodes>>

\* some stored entry still waits for its expiry or for the next sweep
EntriesWaiting ==
    \/ \E k \in DOMAIN sessions : sessions[k].exp > now
    \/ \E k \in DOMAIN deviceCodes : rows[deviceCodes[k]].exp > now
    \/ /\ DOMAIN sessions \cup DOMAIN deviceCodes # {}
       /\ now < nextSweep

\* the latest time the clock is followed to: every entry a run can store has
\* expired and met a sweep by then
TimeCap == SessionTtl * (2 * MaxRows + MaxTicks + 2)

\* time keeps passing while entries are stored: once the bounded steps are
\* used up, the clock moves on by a whole session lifetime
TickOn ==
    /\ resp = NoResp
    /\ ticks >= MaxTicks
    /\ EntriesWaiting
    /\ now < TimeCap
    /\ now' = now + SessionTtl
    /\ UNCHANGED <<ticks, nextSweep, deviceCodes, rows, sessions, inflight, resp,
                   redeems, redeemedCodes>>

-----------------------------------------------------------------------------
(* Explorations.  Each takes the handlers above with a bounded choice of   *)
(* inputs; issued counts the device codes a run may issue.                 *)

StartUpTo(issued, a, o, raw) == (o = "ok" => Len(rows) < issued) /\ Start(a, o, raw)

\* the pairing flow with two concurrent claim handlers, the sweep and the clock
Next ==
    \/ \E a \in StartHeaders, o \in UpstreamOutcomes, raw \in RawCodes : StartUpTo(MaxRows, a, o, raw)
    \/ \E s \in Slots, c \in ClaimCodes, n \in NoName : ClaimBegin(s, c, n)
    \/ \E s \in Slots, o \in UpstreamOutcomes, rnd \in RandomSuffixes : ClaimFinish(s, o, rnd)
    \/ EndTurn
    \/ Sweep
    \/ \E d \in TickSteps : Tick(d)

Spec == Init /\ [][Next]_vars

\* the same, with one more device code issued: a code string can be issued again
ReissueNext ==
    \/ \E a \in StartHeaders, o \in UpstreamOutcomes, raw \in RawCodes : StartUpTo(MaxRows + 1, a, o, raw)
    \/ \E s \in Slots, c \in ClaimCodes, n \in NoName : ClaimBegin(s, c, n)
    \/ \E s \in Slots, o \in UpstreamOutcomes, rnd \in RandomSuffixes : ClaimFinish(s, o, rnd)
    \/ EndTurn
    \/ Sweep
    \/ \E d \in TickSteps : Tick(d)

ReissueSpec == Init /\ [][ReissueNext]_vars

\* the proxies and the exchange endpoints over the sessions that one claim
\* handler at a time creates
ProxyNext ==
    \/ \E raw \in RawCodes : StartUpTo(MaxRows, BearerPrefix \o <<"d", "1">>, "ok", raw)
    \/ \E c \in DeviceCodeValues, n \in NoName : ClaimBegin(1, c, n)
    \/ \E o \in UpstreamOutcomes, rnd \in RandomSuffixes : ClaimFinish(1, o, rnd)
    \/ \E r \in Routes, a \in ProxyHeaders, o \in UpstreamOutcomes : Proxy(r, a, o)
    \/ Health
    \/ \E c \in AuthCodes, o \in AuthOutcomes : AuthDiscord(c, o)
    \/ EndTurn
    \/ Sweep
    \/ \E d \in TickSteps : Tick(d)

ProxySpec == Init /\ [][ProxyNext]_vars

\* the pairing flow with the clock running on while entries are stored
LiveNext ==
    \/ \E raw \in RawCodes : StartUpTo(MaxRows, BearerPrefix \o <<"d", "1">>, "ok", raw)
    \/ \E c \in DeviceCodeValues, n \in NoName : ClaimBegin(1, c, n)
    \/ \E o \in UpstreamOutcomes, rnd \in RandomSuffixes : ClaimFinish(1, o, rnd)
    \/ EndTurn
    \/ Sweep
    \/ \E d \in TickSteps : Tick(d)
    \/ TickOn

\* a turn ends, the timer keeps firing and time keeps advancing
LiveSpec ==
    /\ Init /\ [][LiveNext]_vars
    /\ WF_vars(EndTurn)
    /\ SF_vars(Sweep)
    /\ SF_vars((\E d \in TickSteps : Tick(d)) \/ TickOn)

TypeOK ==
    /\ now \in Nat /\ ticks \in 0..MaxTicks
    /\ \A k \in DOMAIN deviceCodes : deviceCodes[k] \in 1..Len(rows)
    /\ Len(redeems) = Len(rows)
    /\ \A k \in DOMAIN sessions : sessions[k].discord_access_token \in DiscordTokens

-----------------------------------------------------------------------------
(* Which handler a step belongs to, read off the step itself *)

\* the first part of a claim handler runs for device_code c
ClaimStarts(c) ==
    /\ resp = NoResp
    /\ \/ /\ inflight' = inflight
          /\ resp'.route = "claim"
          /\ resp'.upstream = "none"
          /\ resp'.req.device_code = c
       \/ \E s \in Slots : /\ inflight[s] = Idle
                           /\ inflight'[s] # Idle
                           /\ inflight'[s].req.device_code = c

\* a claim handler answers after its upstream lookup
ClaimAnswers == resp = NoResp /\ resp'.route = "claim" /\ resp'.upstream # "none"

\* a proxy handler runs for the Authorization header a
ProxyHandles(a) == resp = NoResp /\ resp'.route \in Routes /\ resp'.req.authorization = a

\* the setInterval callback runs
SweepRuns == nextSweep' # nextSweep

PairingStateUnchanged == deviceCodes' = deviceCodes /\ rows' = rows /\ sessions' = sessions

-----------------------------------------------------------------------------
(* C1: a device code is single-use: whatever the interleaving of claim      *)
(* requests, at most one session is ever added to the session map on        *)
(* behalf of one issued device code (one row object).                       *)
C1_SingleUse == \A r \in DOMAIN redeems : redeems[r] <= 1

(* C2: once a claim of code c was answered 200, every claim of c that       *)
(* starts afterwards is answered 400 with already_used or invalid_code and  *)
(* never gets to the upstream lookup.                                       *)
C2_UsedCodesRejected ==
    [][\A c \in redeemedCodes :
          ClaimStarts(c) =>
             /\ inflight' = inflight
             /\ resp'.status = 400
             /\ resp'.error \in {"already_used", "invalid_code"}]_vars

(* C3: a claim of a stored, unused device code whose exp is earlier than    *)
(* now is answered 400 expired, makes no upstream call, does not mark the   *)
(* code used and adds no session.                                           *)
C3_ExpiredRejected ==
    [][\A c \in DOMAIN deviceCodes :
          (/\ ClaimStarts(c)
           /\ ~rows[deviceCodes[c]].used
           /\ rows[deviceCodes[c]].exp < now) =>
             /\ inflight' = inflight
             /\ resp'.status = 400 /\ resp'.error = "expired"
             /\ resp'.upstream = "none"
             /\ PairingStateUnchanged]_vars

\* an expired, unused, still stored code was claimed and answered expired
C3_Witness ==
    /\ resp.route = "claim" /\ resp.error = "expired"
    /\ resp.req.device_code \in DOMAIN deviceCodes
    /\ ~rows[deviceCodes[resp.req.device_code]].used
    /\ rows[deviceCodes[resp.req.device_code]].exp < now

(* C4: a claim whose device_code is not a key of deviceCodes is answered    *)
(* 400 invalid_code, and a claim without a device_code 400 missing_code;    *)
(* both make no upstream call and leave deviceCodes and sessions unchanged. *)
C4_UnknownRejected ==
    [][\A c \in ClaimCodes :
          ClaimStarts(c) =>
             /\ (c = Undefined) =>
                   /\ inflight' = inflight
                   /\ resp'.status = 400 /\ resp'.error = "missing_code"
                   /\ resp'.upstream = "none"
                   /\ PairingStateUnchanged
             /\ (c # Undefined /\ c # <<>> /\ c \notin DOMAIN deviceCodes) =>
                   /\ inflight' = inflight
                   /\ resp'.status = 400 /\ resp'.error = "invalid_code"
                   /\ resp'.upstream = "none"
                   /\ PairingStateUnchanged]_vars

\* a code that was redeemed and then swept is claimed again and answered invalid_code
C4_Witness ==
    /\ resp.route = "claim" /\ resp.error = "invalid_code"
    /\ resp.req.device_code \in redeemedCodes
    /\ resp.req.device_code \notin DOMAIN deviceCodes

(* C5: token resolution goes through the session map first: a bearer value  *)
(* that is a key of sessions with exp later than now is replaced by the     *)
(* stored provider token; any other non-empty bearer value is forwarded     *)
(* unchanged; an absent header, one not starting with "Bearer ", or one     *)
(* with an empty token makes /api/me and /api/discord/guilds answer 401     *)
(* without an upstream call.                                                *)
C5_TokenResolution ==
    [][\A a \in ProxyHeaders :
          ProxyHandles(a) =>
             /\ \A k \in DiscordTokens \cup SessionTokenValues :
                   (a = BearerPrefix \o k) =>
                      /\ resp'.upstream # "none"
                      /\ resp'.body.discordToken =
                            IF k \in DOMAIN sessions /\ sessions[k].exp > now
                            THEN sessions[k].discord_access_token
                            ELSE k
             /\ (\/ a = Undefined
                 \/ a = BearerPrefix
                 \/ Len(a) < Len(BearerPrefix)
                 \/ \E i \in 1..Len(BearerPrefix) : a[i] # BearerPrefix[i]) =>
                      /\ resp'.status = 401
                      /\ resp'.upstream = "none"
                      /\ resp'.error = (IF resp'.route = "me" THEN "missing_token"
                                        ELSE "missing_bearer_token")]_vars

\* a live session token was presented and the stored provider token went upstream
C5_Witness ==
    /\ resp.route \in Routes /\ resp.upstream # "none"
    /\ \E k \in DOMAIN sessions :
          /\ resp.req.authorization = BearerPrefix \o k
          /\ sessions[k].exp > now
          /\ resp.body.discordToken = sessions[k].discord_access_token
          /\ resp.body.discordToken # k

(* C6: a session is reusable until expiry: while now has not reached its    *)
(* exp, no step removes or modifies a stored session.                       *)
C6_SessionStable ==
    [][\A k \in DOMAIN sessions :
          sessions[k].exp > now =>
             k \in DOMAIN sessions' /\ sessions'[k] = sessions[k]]_vars

(* C7: an expired session is never honoured: when the presented session     *)
(* token is stored with exp <= now, or is no longer stored, the stored      *)
(* provider token is not returned and the presented token itself is         *)
(* forwarded as the bearer value.                                           *)
C7_ExpiredNeverHonoured ==
    [][\A k \in SessionTokenValues :
          (/\ ProxyHandles(BearerPrefix \o k)
           /\ (k \in DOMAIN sessions => sessions[k].exp <= now)) =>
             /\ resp'.upstream # "none"
             /\ resp'.body.discordToken = k
             /\ k \in DOMAIN sessions =>
                   resp'.body.discordToken # sessions[k].discord_access_token]_vars

\* an expired session that the sweep has not removed yet was presented
C7_Witness ==
    /\ resp.route \in Routes
    /\ \E k \in DOMAIN sessions :
          /\ resp.req.authorization = BearerPrefix \o k
          /\ sessions[k].exp <= now
          /\ resp.body.discordToken = k

(* C8: the sweep removes exactly the dead entries: right after a sweep at   *)
(* time now no session has exp <= now and no device code is used or has     *)
(* exp <= now, and every session with exp > now and every unused device     *)
(* code with exp > now is still stored with unchanged fields.               *)
C8_SweepExact ==
    [][SweepRuns =>
          /\ \A k \in DOMAIN sessions' : sessions'[k].exp > now
          /\ \A c \in DOMAIN deviceCodes' :
                ~rows'[deviceCodes'[c]].used /\ rows'[deviceCodes'[c]].exp > now
          /\ \A k \in DOMAIN sessions :
                sessions[k].exp > now =>
                   k \in DOMAIN sessions' /\ sessions'[k] = sessions[k]
          /\ \A c \in DOMAIN deviceCodes :
                (~rows[deviceCodes[c]].used /\ rows[deviceCodes[c]].exp > now) =>
                   /\ c \in DOMAIN deviceCodes'
                   /\ rows'[deviceCodes'[c]] = rows[deviceCodes[c]]]_vars

\* a sweep has just run: it kept a live session and dropped a used device code
C8_Witness ==
    /\ nextSweep = now + SweepInterval
    /\ \E k \in DOMAIN sessions : sessions[k].exp > now
    /\ \E r \in DOMAIN rows :
          rows[r].used /\ \A c \in DOMAIN deviceCodes : deviceCodes[c] # r

(* C9: expired entries are eventually swept: with the timer firing and time *)
(* advancing, every stored session and every stored device code is          *)
(* eventually absent from its map.                                          *)
C9_EventuallySwept ==
    /\ \A k \in SessionTokenValues :
          (k \in DOMAIN sessions) ~> (k \notin DOMAIN sessions)
    /\ \A c \in DeviceCodeValues :
          (c \in DOMAIN deviceCodes) ~> (c \notin DOMAIN deviceCodes)

\* entries were stored, expired and were swept: both maps are empty again
C9_Witness ==
    /\ \E r \in DOMAIN redeems : redeems[r] > 0
    /\ DOMAIN sessions = {}
    /\ DOMAIN deviceCodes = {}
    /\ now >= SessionTtl

(* C10: a claim whose upstream lookup answers non-ok (401                   *)
(* discord_unauthorized), throws or returns an unparsable body (500         *)
(* server_error) does not mark the code used and adds no session, so the    *)
(* code stays as redeemable as it was.                                      *)
C10_FailedClaimNoEffect ==
    [][(ClaimAnswers /\ resp'.upstream \in {"nonok", "throw", "unparsable"}) =>
          /\ resp'.status = (IF resp'.upstream = "nonok" THEN 401 ELSE 500)
          /\ resp'.error = (IF resp'.upstream = "nonok" THEN "discord_unauthorized"
                            ELSE "server_error")
          /\ PairingStateUnchanged
          /\ ClaimRejection(resp'.req.device_code, deviceCodes', rows', now')
                = ClaimRejection(resp'.req.device_code, deviceCodes, rows, now)]_vars

\* a claim failed upstream and its code, still unexpired and unused, can be claimed again
C10_Witness ==
    /\ resp.route = "claim"
    /\ resp.upstream \in {"nonok", "throw", "unparsable"}
    /\ ClaimRejection(resp.req.device_code, deviceCodes, rows, now) = ""

\* a start handler runs
StartHandles == resp = NoResp /\ resp'.route = "start"

(* C11: a device code is issued only for a bearer token that upstream       *)
(* accepted: a start writes the device-code map only when its profile       *)
(* lookup answered ok, and then writes exactly one key, the returned code,  *)
(* with used = false, exp = now + 10 minutes, the upstream user id and the  *)
(* presented token; with a missing bearer token (401 missing_bearer_token)  *)
(* or a non-ok answer (401 discord_unauthorized) both maps are unchanged.   *)
C11_IssuedOnlyWhenAccepted ==
    [][StartHandles =>
          /\ sessions' = sessions
          /\ \A r \in DOMAIN rows : rows'[r] = rows[r]
          /\ (resp'.upstream # "ok") => PairingStateUnchanged
          /\ (~\E tok \in StartTokens : resp'.req.authorization = BearerPrefix \o tok) =>
                /\ resp'.upstream = "none"
                /\ resp'.status = 401 /\ resp'.error = "missing_bearer_token"
          /\ (resp'.upstream = "nonok") =>
                resp'.status = 401 /\ resp'.error = "discord_unauthorized"
          /\ (resp'.upstream = "ok") =>
                \E tok \in StartTokens :
                   /\ resp'.req.authorization = BearerPrefix \o tok
                   /\ resp'.status = 200
                   /\ DOMAIN deviceCodes' = DOMAIN deviceCodes \cup {resp'.body.device_code}
                   /\ \A c \in DOMAIN deviceCodes :
                         c # resp'.body.device_code => deviceCodes'[c] = deviceCodes[c]
                   /\ deviceCodes'[resp'.body.device_code] \notin DOMAIN rows
                   /\ rows'[deviceCodes'[resp'.body.device_code]] =
                         [userId |-> UpstreamUser(tok), discord_access_token |-> tok,
                          exp |-> now + DeviceTtl, used |-> FALSE]
                   /\ resp'.body.expires_at = now + DeviceTtl]_vars

\* a start was answered 200 and its code is stored, unused, expiring in ten minutes
C11_Witness ==
    /\ resp.route = "start" /\ resp.status = 200 /\ resp.upstream = "ok"
    /\ resp.body.device_code \in DOMAIN deviceCodes
    /\ ~rows[deviceCodes[resp.body.device_code]].used
    /\ rows[deviceCodes[resp.body.device_code]].exp = now + DeviceTtl

(* C12: no session is created from an expired code: whenever a claim adds   *)
(* a session, the row it redeems has exp >= now and is still the entry of   *)
(* a key of the device-code map, whatever time passed and whatever sweeps   *)
(* ran during the claim's upstream call.                                    *)
C12_NoSessionFromExpiredCode ==
    [][\A r \in DOMAIN redeems :
          redeems'[r] > redeems[r] =>
             /\ rows[r].exp >= now
             /\ \E c \in DOMAIN deviceCodes : deviceCodes[c] = r]_vars

(* C13: claim, token resolution and sweep agree on when an entry is         *)
(* expired: at every time now, the claim handler answers expired for an     *)
(* unused stored code exactly when the sweep would delete it, and token     *)
(* resolution declines a stored session exactly when the sweep would        *)
(* delete it.                                                               *)
C13_ExpiryAgreement ==
    /\ \A c \in DOMAIN deviceCodes :
          ~rows[deviceCodes[c]].used =>
             ((RowRejection(rows[deviceCodes[c]], now) = "expired")
                 <=> DeviceCodeDead(rows[deviceCodes[c]], now))
    /\ \A k \in DOMAIN sessions :
          (resolveDiscordTokenFromAuthHeader(BearerPrefix \o k, sessions, now)
              # sessions[k].discord_access_token)
             <=> SessionDead(sessions[k], now)

(* C14: every session descends from an issued device code: a session        *)
(* enters the session map only through a successful claim (one answered     *)
(* 200), and then has the user id and provider token of a row stored by a   *)
(* successful start, exp = now + 30 days and a non-empty device_name,       *)
(* Windows when the claim gave none.                                        *)
C14_SessionsDescendFromCodes ==
    [][\A k \in DOMAIN sessions' :
          (k \notin DOMAIN sessions \/ sessions'[k] # sessions[k]) =>
             /\ ClaimAnswers
             /\ resp'.status = 200
             /\ \E r \in DOMAIN rows :
                   /\ rows[r].userId = sessions'[k].userId
                   /\ rows[r].discord_access_token = sessions'[k].discord_access_token
             /\ sessions'[k].exp = now + SessionTtl
             /\ sessions'[k].device_name # <<>>
             /\ (resp'.req.device_name = Undefined) => sessions'[k].device_name = Windows]_vars

(* C15: issuing never overwrites a live entry: a successful start stores    *)
(* its device code under a key that is not in the device-code map, a claim  *)
(* stores its session under a key that is not in the session map, and no    *)
(* stored unexpired code or session is replaced by either.                  *)
C15_IssuingNeverOverwrites ==
    [][/\ (StartHandles /\ resp'.upstream = "ok") =>
             /\ resp'.body.device_code \notin DOMAIN deviceCodes
             /\ \A c \in DOMAIN deviceCodes :
                   rows[deviceCodes[c]].exp > now => deviceCodes'[c] = deviceCodes[c]
       /\ (\E r \in DOMAIN redeems : redeems'[r] > redeems[r]) =>
             /\ DOMAIN sessions' # DOMAIN sessions
             /\ \A k \in DOMAIN sessions :
                   sessions[k].exp > now => sessions'[k] = sessions[k]]_vars

\* a handler of one of the pass-through or exchange endpoints runs
ReadOnlyHandles == resp = NoResp /\ resp'.route \in {"health", "auth", "me", "guilds"}

(* C16: the pass-through and exchange endpoints are read-only on pairing    *)
(* state: GET /api/health, POST /api/auth/discord, GET /api/me and          *)
(* GET /api/discord/guilds leave the device-code map and the session map    *)
(* unchanged in every outcome.                                              *)
C16_ReadOnlyEndpoints ==
    [][ReadOnlyHandles =>
          /\ PairingStateUnchanged
          /\ inflight' = inflight]_vars

\* a proxy presented with an expired, still stored session relayed an upstream error
C16_Witness ==
    /\ resp.route \in Routes
    /\ resp.status = UpstreamErrorStatus
    /\ \E k \in DOMAIN sessions :
          resp.req.authorization = BearerPrefix \o k /\ sessions[k].exp <= now
    /\ DOMAIN deviceCodes # {}

(* C17: the claim handler's rejections have a fixed precedence: missing     *)
(* device_code, then unknown code, then used, then expired, so a stored     *)
(* code that is both used and expired is answered already_used; and each    *)
(* claim request produces exactly one response: its first part either       *)
(* answers or suspends on the upstream call, and the part after the call    *)
(* answers once and ends that request only.                                 *)
C17_RejectionPrecedence ==
    [][/\ \A c \in ClaimCodes :
             ClaimStarts(c) =>
                LET expected ==
                       IF c = Undefined \/ c = <<>> THEN "missing_code"
                       ELSE IF c \notin DOMAIN deviceCodes THEN "invalid_code"
                       ELSE IF rows[deviceCodes[c]].used THEN "already_used"
                       ELSE IF rows[deviceCodes[c]].exp < now THEN "expired"
                       ELSE ""
                IN  IF expected # ""
                    THEN /\ inflight' = inflight
                         /\ resp'.route = "claim"
                         /\ resp'.status = 400 /\ resp'.error = expected
                    ELSE /\ resp' = NoResp
                         /\ Cardinality({s \in Slots : inflight'[s] # inflight[s]}) = 1
       /\ ClaimAnswers =>
             /\ Cardinality({s \in Slots : inflight'[s] # inflight[s]}) = 1
             /\ \A s \in Slots : inflight'[s] # inflight[s] =>
                   /\ inflight'[s] = Idle
                   /\ inflight[s].req = resp'.req
       /\ (resp = NoResp /\ resp'.route = "claim") =>
             (ClaimAnswers \/ inflight' = inflight)]_vars

\* a stored code that is both used and expired was claimed and answered already_used
C17_Witness ==
    /\ resp.route = "claim" /\ resp.error = "already_used"
    /\ resp.req.device_code \in DOMAIN deviceCodes
    /\ rows[deviceCodes[resp.req.device_code]].used
    /\ rows[deviceCodes[resp.req.device_code]].exp < now

====
